---- MODULE Spec2Model ----
(***************************************************************************)
(* neonchat-bridge: the ConnectionManager (dist/connection.js) and the     *)
(* ClaudeCodeExecutor (dist/executor.js) as one state machine.             *)
(*                                                                         *)
(* Node runs every handler to completion, so one action is one handler:    *)
(* a transport event, an inbound message, a poll tick, a subprocess close, *)
(* a timer.  The subprocess and the remote end are the environment.        *)
(*                                                                         *)
(* The subprocess writes whole lines (text plus newline) to its sink file; *)
(* the file is the sequence of lines written so far and the offset counts  *)
(* the lines already read.                                                  *)
(***************************************************************************)
EXTENDS Integers, Sequences, FiniteSets, TLC

\* ---------------------------------------------------------------- bounds
\* The inputs the environment delivers in one run after the first connect,
\* all kinds together: inbound messages (or calls of a harness), reconnect
\* attempts, lines written by subprocesses and quiet periods.
MaxEvents == 3

\* The length of the output text handed to the decoder, in bytes.
MaxBytes == 5

\* The number of entries of a directory that is listed.
MaxEntries == 3

\* ------------------------------------------------------ program constants
RECONNECT_DELAY_MS == 5000
MAX_RECONNECT_DELAY_MS == 60000

\* ------------------------------------------------------------------ state
VARIABLES
  ws,               \* this.ws: "null" or the socket's readyState
  executor,         \* this.executor: 0 (null) or the index of an executor
  heartbeatTimer,   \* this.heartbeatTimer is set
  reconnectTimer,   \* this.reconnectTimer: "null", "pending", "cleared" (handle kept, timer cleared)
  reconnectDelay,   \* this.reconnectDelay
  currentStatus,    \* this.currentStatus
  currentSessionId, \* this.currentSessionId ("" is null/empty)
  isShuttingDown,   \* this.isShuttingDown
  exs,              \* every executor constructed so far, in order of construction
  out,              \* per request_id, the responses handed to sendResponse / ws.send
  lastHb,           \* the last heartbeat sent on the transport
  nIn,              \* inbound messages handled so far
  nConn,            \* reconnect attempts made so far
  nQuiet,           \* quiet periods elapsed so far
  started,          \* start() has made its first connect() call
  hbTimers,         \* heartbeat intervals set and not cleared
  waits,            \* the delays the reconnect timers were set with, in order
  dec,              \* a line decoder fed by chunks: the text, the bytes fed, the buffer, the events
  br,               \* a file_browse request: the directory as read, and the response built
  budget,           \* the number of environment inputs this run may deliver
  call              \* one call of execute(): the command, the options, the argument list

vars == <<ws, executor, heartbeatTimer, reconnectTimer, reconnectDelay,
          currentStatus, currentSessionId, isShuttingDown, exs, out, lastHb,
          nIn, nConn, nQuiet, started, hbTimers, waits, dec, br, budget, call>>

cmVars == <<ws, executor, heartbeatTimer, reconnectTimer, reconnectDelay,
            currentStatus, currentSessionId, isShuttingDown, out, lastHb,
            nIn, nConn, started, hbTimers, waits, br, budget, call>>

Rids == 1..(MaxEvents + 1)

\* The lines a subprocess may write: a JSON object with a type and an
\* optional session_id, or text that JSON.parse rejects.
\* The fields a result event is built from are left out of the line
\* (undefined) or present.
Undefined == "undefined"
NoFields ==
  [ result |-> Undefined, total_cost_usd |-> Undefined, duration_ms |-> Undefined,
    num_turns |-> Undefined, is_error |-> Undefined ]
AllFields ==
  [ result |-> "ok", total_cost_usd |-> "0.25", duration_ms |-> "1200",
    num_turns |-> "3", is_error |-> "true" ]

Lines ==
  { [type |-> "init",      sid |-> "s1", fields |-> NoFields],
    [type |-> "assistant", sid |-> "",   fields |-> NoFields],
    [type |-> "result",    sid |-> "",   fields |-> NoFields],
    [type |-> "junk",      sid |-> "",   fields |-> NoFields] }

\* The same, and an init line without a session_id, a result line with its
\* own session_id and every field, and a line that is empty or whitespace.
SessionLines ==
  Lines \cup { [type |-> "init",   sid |-> "",   fields |-> NoFields],
               [type |-> "result", sid |-> "s2", fields |-> AllFields],
               [type |-> "blank",  sid |-> "",   fields |-> NoFields] }

\* What the subprocess leaves in its stderr sink.
StderrTexts == {"", "boom"}

\* Exit codes handed to the close handler: 0, non-zero, null (-1: killed by signal).
ExitCodes == {0, 1, -1}

\* ------------------------------------------------------- executor object
\* new ClaudeCodeExecutor(): process = null, sessionId = '', buffer = ''.
\*   rid    the request_id its listeners were bound to (0: no listeners)
\*   run    "idle" (process null, not executed), "preflight_failed" (process null),
\*          "spawn_failed" (process set, never ran), "running", "closed"
\*   killed process.killed;  sig: SIGTERMs delivered to the subprocess
\*   timer  the timeout timer: "none", "armed", "fired"
\*   code, diag  the exit code and diagnostics the close handler saw
\*   emitted the kinds of the events the executor has emitted, in order
\*   trace  the same events with the line they came from and the session id
\*          a result event carries
\*   results  the result events emitted, each with the line it came from
\*   delivered  everything appended to the buffer so far, in order
\*   promise  the promise execute() returned: "none" (not called), "pending",
\*          "resolved", "rejected"
NewExecutor(rid) ==
  [ rid |-> rid, run |-> "idle", killed |-> FALSE, sig |-> 0,
    file |-> <<>>, offset |-> 0, sessionId |-> "",
    quiet |-> FALSE, noOutputWarned |-> FALSE,
    timer |-> "none", code |-> 0, diag |-> "", emitted |-> <<>>,
    trace |-> <<>>, results |-> <<>>, delivered |-> <<>>, promise |-> "none" ]

\* The state the listeners and the decoder work on while one handler runs.
World == [ exs |-> exs, executor |-> executor, status |-> currentStatus,
           sess |-> currentSessionId, out |-> out ]

\* ConnectionManager.sendResponse: the response goes out only on an open
\* socket; a response handed over while it is not open is dropped.
sendResponse(W, rid, resp) ==
  [W EXCEPT !.out[rid] = Append(@, [resp EXCEPT !.sent = (ws = "OPEN")])]

Resp(type, e, why, sid, line) ==
  [type |-> type, exec |-> e, why |-> why, sid |-> sid, line |-> line, sent |-> FALSE]

\* executor.on('message'): a stream response with the command's request_id
\* and the session id of this.executor (the manager's current executor).
onMessage(W, e, line) ==
  sendResponse(W, W.exs[e].rid,
               Resp("stream", e, "line", W.exs[W.executor].sessionId, line))

\* executor.on('result')
onResult(W, e, sid) ==
  [ sendResponse([W EXCEPT !.sess = sid], W.exs[e].rid,
                 Resp("result", e, "result", sid, 0))
    EXCEPT !.status = "online" ]

\* executor.on('error')
onError(W, e, why) ==
  [ sendResponse(W, W.exs[e].rid, Resp("error", e, why, "", 0))
    EXCEPT !.status = "online" ]

\* executor.on('exit'): reports only while the status is still busy; the
\* diagnostics are attached unless blank or starting with "(failed".
onExitStillBusy(W, e, code, diag) ==
  [ sendResponse(W, W.exs[e].rid,
                 Resp("error", e,
                      IF diag # "" /\ diag # "(failed" THEN "exit+diag"
                      ELSE IF code # 0 THEN "exit+nodiag" ELSE "exit", "", 0))
    EXCEPT !.status = "online" ]

\* An exit listener that reports nothing and leaves the status alone.
onExitSilent(W, e, code, diag) == W

onExit(W, e, code, diag) ==
  IF W.status = "busy" THEN onExitStillBusy(W, e, code, diag) ELSE W

\* The listeners the manager attached to executor e (if any), run in the
\* order of the four executor.on(...) registrations; one event has one
\* listener.
listeners(W, e, ev) ==
  LET W1 == [W EXCEPT !.exs[e].emitted = Append(@, ev.kind),
                      !.exs[e].trace = Append(@, [kind |-> ev.kind, line |-> ev.line,
                                                  sid |-> ev.sid]),
                      !.exs[e].results = IF ev.kind = "result"
                                         THEN Append(@, [line |-> ev.line, result |-> ev.payload])
                                         ELSE @]
  IN  IF W.exs[e].rid = 0 THEN W1
      ELSE CASE ev.kind = "message" -> onMessage(W1, e, ev.line)
             [] ev.kind = "result"  -> onResult(W1, e, ev.sid)
             [] ev.kind = "error"   -> onError(W1, e, ev.why)
             [] ev.kind = "exit"    -> onExit(W1, e, ev.code, ev.diag)

\* EventEmitter.emit: the event is recorded and the listeners run
\* synchronously on the state reached so far (V: that state, and x: the
\* event, each computed once).
emit(W, e, ev) == CHOOSE R \in { listeners(V, e, x) : V \in {W}, x \in {ev} } : TRUE

Ev(kind) ==
  [kind |-> kind, line |-> 0, sid |-> "", why |-> "", code |-> 0, diag |-> "", payload |-> <<>>]

\* A capture that takes the line's session_id as it is, empty or not.
captureSessionIdOverwrite(sessionId, l) ==
  IF l.type = "init" \/ l.sid # "" THEN l.sid ELSE sessionId

\* processBuffer, the session id after a parsed line: on an init line or a
\* line with a session_id, `msg.session_id || this.sessionId`.
captureSessionId(sessionId, l) ==
  IF l.type = "init" \/ l.sid # ""
  THEN (IF l.sid # "" THEN l.sid ELSE sessionId)
  ELSE sessionId

\* A result event that takes the fields of the line as they are.
resultEventRaw(msg, sessionId) ==
  [ session_id  |-> sessionId,
    result      |-> msg.fields.result,
    cost_usd    |-> msg.fields.total_cost_usd,
    duration_ms |-> msg.fields.duration_ms,
    num_turns   |-> msg.fields.num_turns,
    is_error    |-> msg.fields.is_error ]

\* `v || d`
orDefault(v, d) == IF v = Undefined THEN d ELSE v

\* processBuffer, the object emitted as the result event of a result line.
resultEvent(msg, sessionId) ==
  [ session_id  |-> sessionId,
    result      |-> orDefault(msg.fields.result, ""),
    cost_usd    |-> orDefault(msg.fields.total_cost_usd, "0"),
    duration_ms |-> orDefault(msg.fields.duration_ms, "0"),
    num_turns   |-> orDefault(msg.fields.num_turns, "0"),
    is_error    |-> orDefault(msg.fields.is_error, "false") ]

\* A loop body that skips no line.
skipsNothing(l) == FALSE

\* processBuffer, the lines its loop body passes over: a line that trims to
\* nothing (`continue`) and a line JSON.parse throws on (the empty catch).
skipped(l) == l.type \in {"blank", "junk"}

\* ClaudeCodeExecutor.processBuffer, one complete line: blank or unparseable
\* text is skipped; the session id is captured; a message event, and a
\* result event with the session id for a result line.
processLine(W, e, i) ==
  LET l   == W.exs[e].file[i]
      sid == captureSessionId(W.exs[e].sessionId, l)
      W1  == [W EXCEPT !.exs[e].sessionId = sid]
      W2  == emit(W1, e, [Ev("message") EXCEPT !.line = i])
  IN  IF skipped(l) THEN W
      ELSE IF l.type = "result"
           THEN emit(W2, e, [Ev("result") EXCEPT
                               !.line = i, !.sid = W2.exs[e].sessionId,
                               !.payload = resultEvent(l, W2.exs[e].sessionId)])
           ELSE W2

\* A loop over the complete lines from the last to the first.
RECURSIVE processLinesBackwards(_, _, _, _)
processLinesBackwards(W, e, i, n) ==
  IF i > n THEN W ELSE processLinesBackwards(processLine(W, e, n), e, i, n - 1)

\* The for loop of processBuffer over the complete lines, first to last.
RECURSIVE processLines(_, _, _, _)
processLines(W, e, i, n) ==
  IF i > n THEN W
  ELSE processLines(CHOOSE R \in { processLine(V, e, i) : V \in {W} } : TRUE, e, i + 1, n)

\* A read that starts at the beginning of the sink every time.
newBytesFromStart(ex) == ex.file

\* The read of the sink: Buffer.alloc(stat.size - fileOffset) filled from
\* position fileOffset, i.e. everything beyond the offset.
newBytes(ex) == SubSeq(ex.file, ex.offset + 1, Len(ex.file))

\* The new bytes are appended to the buffer and processBuffer runs over them.
processBuffer(W, e) ==
  CHOOSE R \in { [ processLines(V, e, V.exs[e].offset + 1, Len(V.exs[e].file))
                   EXCEPT !.exs[e].offset = Len(V.exs[e].file),
                          !.exs[e].delivered = @ \o newBytes(V.exs[e]) ] : V \in {W} } : TRUE

\* process.kill('SIGTERM'): delivered to a running subprocess, which marks
\* it killed; on a process that never ran or has closed it delivers nothing
\* and leaves killed false.
kill(ex) ==
  IF ex.run = "running" THEN [ex EXCEPT !.killed = TRUE, !.sig = @ + 1] ELSE ex

\* this.process is set once spawn() has returned a ChildProcess.
hasProcess(ex) == ex.run \in {"spawn_failed", "running", "closed"}

\* A cancel that signals whatever the state of the process.
cancelAlways(ex) == [ex EXCEPT !.killed = TRUE, !.sig = @ + 1]

\* ClaudeCodeExecutor.cancel: SIGTERM if there is a process not yet marked
\* killed.
cancel(ex) == IF hasProcess(ex) /\ ~ex.killed THEN kill(ex) ELSE ex

RECURSIVE TotalLines(_)
TotalLines(xs) == IF xs = <<>> THEN 0 ELSE Len(Head(xs).file) + TotalLines(Tail(xs))

\* Environment inputs delivered so far; every input action needs one left.
Used == nIn + nConn + nQuiet + TotalLines(exs)
MayInput == Used < budget

\* The handler's result becomes the next state.
Commit(W) ==
  \E V \in {W} :
    /\ exs' = V.exs
    /\ executor' = V.executor
    /\ currentStatus' = V.status
    /\ currentSessionId' = V.sess
    /\ out' = V.out

\* ------------------------------------------------- the decoder by itself
\* The bytes of the subprocess's output: braces, a content byte that makes
\* the line a result line, the two bytes of one two-byte UTF-8 character,
\* and the newline.
Bytes == {"{", "}", "r", "hi", "lo", "nl"}

\* Buffer.toString(): UTF-8 decoding of one chunk; a lead byte with its
\* continuation byte is the character, a lead byte without it and a
\* continuation byte without its lead byte become U+FFFD.
RECURSIVE toString(_)
toString(bs) ==
  IF bs = <<>> THEN <<>>
  ELSE IF Head(bs) = "hi" /\ Len(bs) >= 2 /\ bs[2] = "lo"
       THEN <<"ch">> \o toString(SubSeq(bs, 3, Len(bs)))
       ELSE IF Head(bs) \in {"hi", "lo"}
            THEN <<"fffd">> \o toString(Tail(bs))
            ELSE <<Head(bs)>> \o toString(Tail(bs))

\* String.split('\n'): the pieces between the newlines, the last one being
\* what follows the last newline.
RECURSIVE split(_)
split(cs) ==
  IF \A i \in 1..Len(cs) : cs[i] # "nl" THEN <<cs>>
  ELSE LET n == CHOOSE i \in 1..Len(cs) :
                  cs[i] = "nl" /\ \A j \in 1..(i - 1) : cs[j] # "nl"
       IN  <<SubSeq(cs, 1, n - 1)>> \o split(SubSeq(cs, n + 1, Len(cs)))

\* JSON.parse succeeds on an object: an opening brace, content, a closing brace.
parses(line) ==
  /\ Len(line) >= 2
  /\ line[1] = "{" /\ line[Len(line)] = "}"
  /\ \A i \in 2..(Len(line) - 1) : line[i] \notin {"{", "}"}

\* The events processBuffer emits for one complete line: nothing for an
\* empty or unparseable line; a message event, and a result event too for a
\* result line.
lineEvents(line) ==
  IF ~parses(line) THEN <<>>
  ELSE <<[kind |-> "message", msg |-> line]>>
       \o (IF \E i \in 1..Len(line) : line[i] = "r"
           THEN <<[kind |-> "result", msg |-> line]>> ELSE <<>>)

RECURSIVE linesEvents(_)
linesEvents(ls) == IF ls = <<>> THEN <<>> ELSE lineEvents(Head(ls)) \o linesEvents(Tail(ls))

\* A decoder that has been fed nothing of the text yet, and next to it
\* (direct) the decoder of the executor that reads the subprocess's stdout
\* pipe, given the same text.
NewDecoder(text) ==
  [bytes |-> text, fed |-> 0, buffer |-> <<>>, events |-> <<>>, closed |-> FALSE,
   direct |-> [bytes |-> text, fed |-> 0, buffer |-> <<>>, events |-> <<>>,
               closed |-> FALSE]]

\* A processBuffer that decodes the last piece too and keeps nothing.
processBufferTextFlushing(d) ==
  [d EXCEPT !.buffer = <<>>, !.events = @ \o linesEvents(split(d.buffer))]

\* ClaudeCodeExecutor.processBuffer on the buffer as text: the last piece
\* stays in the buffer, the pieces before it are decoded in order.
processBufferText(d) ==
  LET pieces == split(d.buffer)
  IN  [d EXCEPT !.buffer = pieces[Len(pieces)],
                !.events = @ \o linesEvents(SubSeq(pieces, 1, Len(pieces) - 1))]

\* One read of new output: the chunk is converted to text, appended to the
\* buffer, and processBuffer runs.
feed(d, k) ==
  processBufferText([d EXCEPT !.fed = @ + k,
                              !.buffer = @ \o toString(SubSeq(d.bytes, d.fed + 1, d.fed + k))])

\* The final drain of the close handler: what the sink holds beyond the
\* offset, if anything, is converted and appended, and processBuffer runs
\* once more; the buffer is not looked at again.
drain(d) ==
  [ processBufferText([d EXCEPT !.fed = Len(d.bytes),
                                !.buffer = @ \o toString(SubSeq(d.bytes, d.fed + 1, Len(d.bytes)))])
    EXCEPT !.closed = TRUE ]

\* The direct-stream executor, stdout 'data': the chunk is converted to
\* text, appended to the buffer, and processBuffer runs.
onData(d, k) ==
  processBufferText([d EXCEPT !.fed = @ + k,
                              !.buffer = @ \o toString(SubSeq(d.bytes, d.fed + 1, d.fed + k))])

\* The direct-stream executor, process 'close': processBuffer runs once more
\* on what the buffer holds.
onClose(d) == [processBufferText(d) EXCEPT !.closed = TRUE]

\* ------------------------------------------------ the directory listing
\* The names a directory may hold, in the order localeCompare puts them.
Names == <<".env", "A", "a.txt", "b.txt">>

\* String.startsWith('.')
startsWithDot(name) == name \in {".env", ".."}

\* String.localeCompare: negative, zero or positive by the collation order.
localeCompare(a, b) ==
  (CHOOSE i \in 1..Len(Names) : Names[i] = a) - (CHOOSE i \in 1..Len(Names) : Names[i] = b)

\* A comparator that puts the files before the directories.
compareFilesFirst(a, b) ==
  IF a.isDirectory # b.isDirectory
  THEN (IF a.isDirectory THEN 1 ELSE -1)
  ELSE localeCompare(a.name, b.name)

\* browseFiles, the comparator handed to sort: directories first, then by
\* name.
compare(a, b) ==
  IF a.isDirectory # b.isDirectory
  THEN (IF a.isDirectory THEN -1 ELSE 1)
  ELSE localeCompare(a.name, b.name)

\* Array.prototype.sort (stable) with that comparator.
RECURSIVE insert(_, _)
insert(x, xs) ==
  IF xs = <<>> THEN <<x>>
  ELSE IF compare(Head(xs), x) <= 0 THEN <<Head(xs)>> \o insert(x, Tail(xs))
       ELSE <<x>> \o xs

RECURSIVE sort(_)
sort(xs) == IF xs = <<>> THEN <<>> ELSE insert(xs[Len(xs)], sort(SubSeq(xs, 1, Len(xs) - 1)))

\* path.resolve(targetPath, '..'): the path without its last segment; the
\* root (no segment) is its own parent.
parentOf(targetPath) ==
  IF targetPath = <<>> THEN <<>> ELSE SubSeq(targetPath, 1, Len(targetPath) - 1)

keepsEntry(item) == ~startsWithDot(item.name) \/ item.name = ".."

\* browseFiles, the entries of a directory that was read: hidden names
\* filtered out, sorted, and the parent entry put first unless the target
\* is the root.  (The path of each entry is left out.)
listing(targetPath, items) ==
  LET sorted == sort(SelectSeq(items, keepsEntry))
  IN  IF parentOf(targetPath) # targetPath
      THEN <<[name |-> "..", isDirectory |-> TRUE]>> \o sorted
      ELSE sorted

\* A file_browse request not yet handled: the target, what readdirSync
\* returns (or that it throws), and the result to be filled in.
NewBrowse(targetPath, items, throws) ==
  [path |-> targetPath, items |-> items, throws |-> throws,
   done |-> FALSE, entries |-> <<>>, error |-> FALSE]

\* browseFiles builds its result: the listing, or the error of a failed read
\* with the entries left empty.
browse(b) ==
  [b EXCEPT !.done = TRUE,
            !.entries = IF b.throws THEN <<>> ELSE listing(b.path, b.items),
            !.error = b.throws]

\* --------------------------------------------------- the agent invocation
\* A truthy optional string: neither undefined nor empty.
Truthy(v) == v \notin {Undefined, ""}

\* An optional array: undefined, or the list (an empty array is truthy).
NoTools == [defined |-> FALSE, list |-> <<>>]
Tools(list) == [defined |-> TRUE, list |-> list]

\* Array.prototype.join(',')
RECURSIVE join(_)
join(xs) ==
  IF xs = <<>> THEN ""
  ELSE IF Len(xs) = 1 THEN xs[1]
       ELSE xs[1] \o "," \o join(Tail(xs))

\* The direct-stream executor's argument list: the allowed tools are not
\* passed (the block is commented out).
directArgs(options) ==
  <<"-p", options.prompt, "--output-format", "stream-json", "--verbose",
    "--dangerously-skip-permissions">>
  \o (IF Truthy(options.session_id) THEN <<"--resume", options.session_id>> ELSE <<>>)
  \o (IF Truthy(options.mcp_config_path)
      THEN <<"--mcp-config", options.mcp_config_path>> ELSE <<>>)
  \o (IF Truthy(options.system_prompt_append)
      THEN <<"--append-system-prompt", options.system_prompt_append>> ELSE <<>>)

\* ClaudeCodeExecutor.execute (the sink-poll executor), the argument list
\* handed to spawn.
args(options) ==
  <<"-p", options.prompt, "--output-format", "stream-json", "--verbose",
    "--dangerously-skip-permissions">>
  \o (IF Truthy(options.session_id) THEN <<"--resume", options.session_id>> ELSE <<>>)
  \o (IF options.allowed_tools.defined /\ Len(options.allowed_tools.list) > 0
      THEN <<"--allowedTools", join(options.allowed_tools.list)>> ELSE <<>>)
  \o (IF Truthy(options.mcp_config_path)
      THEN <<"--mcp-config", options.mcp_config_path>> ELSE <<>>)
  \o (IF Truthy(options.system_prompt_append)
      THEN <<"--append-system-prompt", options.system_prompt_append>> ELSE <<>>)

\* ConnectionManager.executeCommand, the options it hands to execute(): the
\* session id of a resume command only, the command's tools or else the
\* configured ones, no MCP config and no system prompt.
executeOptions(command, config) ==
  [ prompt |-> command.prompt,
    session_id |-> IF command.type = "resume" THEN command.session_id ELSE Undefined,
    allowed_tools |-> IF command.allowed_tools.defined THEN command.allowed_tools
                      ELSE config.allowed_tools,
    mcp_config_path |-> Undefined,
    system_prompt_append |-> Undefined ]

NoOptions ==
  [ prompt |-> "", session_id |-> Undefined, allowed_tools |-> NoTools,
    mcp_config_path |-> Undefined, system_prompt_append |-> Undefined ]

\* A call of execute() not yet made: the command and the configuration it
\* may come from; then the options (by: who built them), then the argument
\* list (impl: which executor built it).
NewCall(command, config) ==
  [ stage |-> "new", command |-> command, config |-> config, by |-> "",
    options |-> NoOptions, impl |-> "", args |-> <<>> ]

NoCall ==
  NewCall([type |-> "command", prompt |-> "", session_id |-> Undefined,
           allowed_tools |-> NoTools],
          [allowed_tools |-> NoTools])

\* The manager right after construction, nothing started.
IdleManager ==
  /\ ws = "null"
  /\ executor = 0
  /\ heartbeatTimer = FALSE
  /\ reconnectTimer = "null"
  /\ reconnectDelay = RECONNECT_DELAY_MS
  /\ currentStatus = "online"
  /\ currentSessionId = ""
  /\ isShuttingDown = FALSE
  /\ exs = <<>>
  /\ out = [r \in Rids |-> <<>>]
  /\ lastHb = [status |-> "", session |-> "", on |-> ""]
  /\ nIn = 0
  /\ nConn = 0
  /\ nQuiet = 0
  /\ started = FALSE
  /\ hbTimers = 0
  /\ waits = <<>>

Init ==
  /\ IdleManager
  /\ dec = NewDecoder(<<>>)
  /\ br = NewBrowse(<<>>, <<>>, FALSE)
  /\ budget = MaxEvents
  /\ call = NoCall

\* ------------------------------------------------------------ transport
\* ConnectionManager.stopHeartbeat: the interval, if the handle is set, is
\* cleared and the handle dropped.
stopHeartbeat ==
  /\ heartbeatTimer' = FALSE
  /\ hbTimers' = IF heartbeatTimer THEN hbTimers - 1 ELSE hbTimers

\* ConnectionManager.startHeartbeat: stopHeartbeat(), then a new interval.
startHeartbeat ==
  /\ heartbeatTimer' = TRUE
  /\ hbTimers' = (IF heartbeatTimer THEN hbTimers - 1 ELSE hbTimers) + 1

\* A heartbeat sent whatever the socket's state.
sendHeartbeatAlways(wsNow, statusNow) ==
  lastHb' = [status |-> statusNow, session |-> currentSessionId, on |-> wsNow]

\* ConnectionManager.sendHeartbeat, given the socket state and the status
\* at the time of the call: nothing unless the socket is open.
sendHeartbeat(wsNow, statusNow) ==
  lastHb' = IF wsNow = "OPEN"
            THEN [status |-> statusNow, session |-> currentSessionId, on |-> wsNow]
            ELSE lastHb

\* ConnectionManager.scheduleReconnect, given the timer handle and the delay
\* at the time of the call: a no-op while a handle is held; otherwise a
\* timer set with the delay.
scheduleReconnect(timerNow, delayNow) ==
  /\ reconnectTimer' = IF timerNow # "null" THEN timerNow ELSE "pending"
  /\ waits' = IF timerNow # "null" THEN waits ELSE Append(waits, delayNow)

\* ConnectionManager.connect when the socket is created: a new socket,
\* connecting.  The promise settles only on open.
connect == ws' = "CONNECTING"

\* ConnectionManager.connect when it throws before a socket exists (not
\* configured, or new WebSocket() rejects the URL): this.ws is left as it was.
connectThrows == ws' = ws

Min(a, b) == IF a < b THEN a ELSE b

\* start(): the first connect(), made right after construction; a rejected
\* connect() is logged.
Start ==
  /\ ~started
  /\ ~isShuttingDown
  /\ started' = TRUE
  /\ \E throws \in BOOLEAN : IF throws THEN connectThrows ELSE connect
  /\ UNCHANGED <<executor, heartbeatTimer, reconnectTimer, reconnectDelay,
                 currentStatus, currentSessionId, isShuttingDown, exs, out,
                 lastHb, nIn, nConn, nQuiet, hbTimers, waits>>
  /\ UNCHANGED <<dec, br, budget, call>>

\* An open handler that leaves the reconnect delay as it is.
WsOpenKeepsDelay ==
  /\ ws = "CONNECTING"
  /\ ws' = "OPEN"
  /\ startHeartbeat
  /\ currentStatus' = "online"
  /\ sendHeartbeat("OPEN", "online")
  /\ UNCHANGED <<executor, reconnectTimer, reconnectDelay, currentSessionId,
                 isShuttingDown, exs, out, nIn, nConn, nQuiet, started, waits>>
  /\ UNCHANGED <<dec, br, budget, call>>

\* An open handler that also sends what was dropped while the socket was
\* not open.
WsOpenReplays ==
  /\ ws = "CONNECTING"
  /\ ws' = "OPEN"
  /\ reconnectDelay' = RECONNECT_DELAY_MS
  /\ startHeartbeat
  /\ currentStatus' = "online"
  /\ sendHeartbeat("OPEN", "online")
  /\ out' = [r \in Rids |-> [i \in 1..Len(out[r]) |-> [out[r][i] EXCEPT !.sent = TRUE]]]
  /\ UNCHANGED <<executor, reconnectTimer, currentSessionId, isShuttingDown,
                 exs, nIn, nConn, nQuiet, started, waits>>
  /\ UNCHANGED <<dec, br, budget, call>>

\* ws.on('open'): backoff reset, heartbeat timer restarted, status set to
\* online, one heartbeat sent at once.
WsOpen ==
  /\ ws = "CONNECTING"
  /\ ws' = "OPEN"
  /\ reconnectDelay' = RECONNECT_DELAY_MS
  /\ startHeartbeat
  /\ currentStatus' = "online"
  /\ sendHeartbeat("OPEN", "online")
  /\ UNCHANGED <<executor, reconnectTimer, currentSessionId, isShuttingDown,
                 exs, out, nIn, nConn, nQuiet, started, waits>>
  /\ UNCHANGED <<dec, br, budget, call>>

\* The peer's close frame arrives (or the connection starts to go down): the
\* socket's readyState is CLOSING until its close event; no handler runs.
WsClosing ==
  /\ ws = "OPEN"
  /\ ws' = "CLOSING"
  /\ UNCHANGED <<executor, heartbeatTimer, reconnectTimer, reconnectDelay,
                 currentStatus, currentSessionId, isShuttingDown, exs, out,
                 lastHb, nIn, nConn, nQuiet, started, hbTimers, waits>>
  /\ UNCHANGED <<dec, br, budget, call>>

\* ws.on('close') (after ws.on('error'), which only logs): heartbeat
\* stopped; a reconnect scheduled unless shutting down.
WsClose ==
  /\ ws \in {"CONNECTING", "OPEN", "CLOSING"}
  /\ ws' = "CLOSED"
  /\ stopHeartbeat
  /\ IF ~isShuttingDown
     THEN scheduleReconnect(reconnectTimer, reconnectDelay)
     ELSE UNCHANGED <<reconnectTimer, waits>>
  /\ UNCHANGED <<executor, reconnectDelay, currentStatus, currentSessionId,
                 isShuttingDown, exs, out, lastHb, nIn, nConn, nQuiet, started>>
  /\ UNCHANGED <<dec, br, budget, call>>

\* A timer callback that keeps the handle while it connects.
ReconnectFireKeepsHandle ==
  /\ reconnectTimer = "pending"
  /\ MayInput
  /\ nConn' = nConn + 1
  /\ \E throws \in BOOLEAN :
       IF throws
       THEN /\ connectThrows
            /\ reconnectDelay' = Min(reconnectDelay * 2, MAX_RECONNECT_DELAY_MS)
            /\ scheduleReconnect("null", reconnectDelay')
       ELSE /\ connect
            /\ UNCHANGED <<reconnectTimer, reconnectDelay, waits>>
  /\ UNCHANGED <<executor, heartbeatTimer, currentStatus, currentSessionId,
                 isShuttingDown, exs, out, lastHb, nIn, nQuiet, started, hbTimers>>
  /\ UNCHANGED <<dec, br, budget, call>>

\* The reconnect timer's callback: the handle is dropped and connect() is
\* awaited.  connect() never rejects on a transport failure; when it throws
\* before a socket exists, the catch doubles the delay up to the ceiling and
\* schedules the next attempt.
ReconnectFire ==
  /\ reconnectTimer = "pending"
  /\ MayInput
  /\ nConn' = nConn + 1
  /\ \E throws \in BOOLEAN :
       IF throws
       THEN /\ connectThrows
            /\ reconnectDelay' = Min(reconnectDelay * 2, MAX_RECONNECT_DELAY_MS)
            /\ scheduleReconnect("null", reconnectDelay')
       ELSE /\ connect
            /\ reconnectTimer' = "null"
            /\ UNCHANGED <<reconnectDelay, waits>>
  /\ UNCHANGED <<executor, heartbeatTimer, currentStatus, currentSessionId,
                 isShuttingDown, exs, out, lastHb, nIn, nQuiet, started, hbTimers>>
  /\ UNCHANGED <<dec, br, budget, call>>

\* The heartbeat interval's callback.
HeartbeatTick ==
  /\ heartbeatTimer
  /\ sendHeartbeat(ws, currentStatus)
  /\ UNCHANGED <<ws, executor, heartbeatTimer, reconnectTimer, reconnectDelay,
                 currentStatus, currentSessionId, isShuttingDown, exs, out,
                 nIn, nConn, nQuiet, started, hbTimers, waits>>
  /\ UNCHANGED <<dec, br, budget, call>>

\* A disconnect that leaves a pending reconnect timer running.
disconnectKeepsTimer ==
  /\ ~isShuttingDown
  /\ isShuttingDown' = TRUE
  /\ stopHeartbeat
  /\ exs' = IF executor # 0 THEN [exs EXCEPT ![executor] = cancel(@)] ELSE exs
  /\ ws' = IF ws \in {"CONNECTING", "OPEN"} THEN "CLOSING" ELSE ws
  /\ UNCHANGED <<executor, reconnectTimer, reconnectDelay, currentStatus,
                 currentSessionId, out, lastHb, nIn, nConn, nQuiet, started, waits>>
  /\ UNCHANGED <<dec, br, budget, call>>

\* ConnectionManager.disconnect: the flag, the heartbeat stopped, a pending
\* reconnect timer cleared (the handle is kept), the current executor
\* cancelled, the socket asked to close with code 1000.
disconnect ==
  /\ ~isShuttingDown
  /\ isShuttingDown' = TRUE
  /\ stopHeartbeat
  /\ reconnectTimer' = IF reconnectTimer # "null" THEN "cleared" ELSE "null"
  /\ exs' = IF executor # 0 THEN [exs EXCEPT ![executor] = cancel(@)] ELSE exs
  /\ ws' = IF ws \in {"CONNECTING", "OPEN"} THEN "CLOSING" ELSE ws
  /\ UNCHANGED <<executor, reconnectDelay, currentStatus, currentSessionId,
                 out, lastHb, nIn, nConn, nQuiet, started, waits>>
  /\ UNCHANGED <<dec, br, budget, call>>

\* ----------------------------------------------------- inbound messages
\* ws.on('message') fires on the open socket; the n-th inbound message
\* carries request_id n (request ids are unique), except that a cancel may
\* name the request it cancels.
CanReceive == ws = "OPEN" /\ MayInput

\* ClaudeCodeExecutor.execute as started by executeCommand, for each way
\* the start can go.  The preflight (execSync) and spawn run synchronously;
\* a spawn failure is reported by the process 'error' event (the executor
\* emits 'error' and the promise rejects) before any other handler runs,
\* and the 'close' event may or may not follow it (its resolve() finds the
\* promise rejected already).
execute(W, e, outcome, tmo, closeFires) ==
  CASE outcome = "preflight_failed" ->
         [W EXCEPT !.exs[e].run = "preflight_failed", !.exs[e].promise = "rejected"]
    [] outcome = "spawn_failed" ->
         LET W1 == [W EXCEPT !.exs[e].run = "spawn_failed",
                             !.exs[e].promise = "rejected",
                             !.exs[e].timer = IF tmo THEN "armed" ELSE "none"]
             W2 == emit(W1, e, [Ev("error") EXCEPT !.why = "spawn"])
         IN  IF closeFires
             THEN emit(W2, e, [Ev("exit") EXCEPT !.code = -2, !.diag = "(failed"])
             ELSE W2
    [] outcome = "running" ->
         [W EXCEPT !.exs[e].run = "running",
                   !.exs[e].promise = "pending",
                   !.exs[e].timer = IF tmo THEN "armed" ELSE "none"]

\* The catch around `await this.executor.execute(...)`: a rejected
\* execute() is reported and the status set back to online.
executeCatch(W, e, outcome) ==
  IF outcome \in {"preflight_failed", "spawn_failed"}
  THEN [ sendResponse(W, W.exs[e].rid, Resp("error", e, "catch", "", 0))
         EXCEPT !.status = "online" ]
  ELSE W

\* A busy rejection that also resets the status.
rejectBusyAndReset(W, rid) ==
  [ sendResponse(W, rid, Resp("error", 0, "busy", "", 0)) EXCEPT !.status = "online" ]

\* ConnectionManager.executeCommand while busy: one busy error, nothing else.
rejectBusy(W, rid) ==
  sendResponse(W, rid, Resp("error", 0, "busy", "", 0))

\* ConnectionManager.executeCommand while not busy: status busy, a new
\* executor with the four listeners bound to the command, execute() without
\* timeout_ms.
acceptCommand(W, rid, outcome, closeFires) ==
  LET e  == Len(W.exs) + 1
      W1 == [W EXCEPT !.status = "busy",
                      !.exs = Append(@, NewExecutor(rid)),
                      !.executor = e]
  IN  executeCatch(execute(W1, e, outcome, FALSE, closeFires), e, outcome)

\* handleMessage, type command or resume.
HandleCommand ==
  /\ CanReceive
  /\ \E type \in {"command", "resume"} :
       IF currentStatus = "busy"
       THEN /\ Commit(rejectBusy(World, nIn + 1))
       ELSE /\ \E outcome \in {"preflight_failed", "spawn_failed", "running"},
                  closeFires \in BOOLEAN :
                 /\ (closeFires => outcome = "spawn_failed")
                 /\ Commit(acceptCommand(World, nIn + 1, outcome, closeFires))
  /\ nIn' = nIn + 1
  /\ UNCHANGED <<ws, heartbeatTimer, reconnectTimer, reconnectDelay,
                 isShuttingDown, lastHb, nConn, nQuiet, started, hbTimers, waits>>
  /\ UNCHANGED <<dec, br, budget, call>>

\* ConnectionManager.cancelExecution: whenever an executor reference is
\* held, cancel() it, set the status to online and send the cancellation
\* result under the cancel message's request_id.
cancelExecution(W, rid) ==
  IF W.executor # 0
  THEN [ sendResponse([W EXCEPT !.exs[W.executor] = cancel(@)], rid,
                      Resp("result", W.executor, "cancelled", "", 0))
         EXCEPT !.status = "online" ]
  ELSE W

\* handleMessage, type cancel.
HandleCancel ==
  /\ CanReceive
  /\ \E rid \in {nIn + 1} \cup {exs[x].rid : x \in {executor} \ {0}} :
       Commit(cancelExecution(World, rid))
  /\ nIn' = nIn + 1
  /\ UNCHANGED <<ws, heartbeatTimer, reconnectTimer, reconnectDelay,
                 isShuttingDown, lastHb, nConn, nQuiet, started, hbTimers, waits>>
  /\ UNCHANGED <<dec, br, budget, call>>

\* A browseFiles that starts a read-only agent run in an executor of its
\* own and sends nothing.
browseFilesSpawns(W, rid, failed) ==
  [W EXCEPT !.exs = Append(@, [NewExecutor(0) EXCEPT !.run = "running",
                                                     !.promise = "pending",
                                                     !.timer = "armed"])]

\* ConnectionManager.browseFiles: the listing (or the read error) is sent
\* if the socket is open; no executor and no status involved.
browseFiles(W, rid, failed) ==
  sendResponse(W, rid,
               Resp("file_browse_result", 0, IF failed THEN "error" ELSE "listing", "", 0))

\* The directory a file_browse request names: one below the root, holding a
\* hidden file, a file and a directory.
BrowsedItems ==
  << [name |-> ".env", isDirectory |-> FALSE], [name |-> "b.txt", isDirectory |-> FALSE],
     [name |-> "A", isDirectory |-> TRUE] >>

\* handleMessage, type file_browse: the directory is read (or the read
\* fails), the result is built and sent.
HandleBrowse ==
  /\ CanReceive
  /\ \E failed \in BOOLEAN :
       /\ br' = browse(NewBrowse(<<"home">>, IF failed THEN <<>> ELSE BrowsedItems, failed))
       /\ Commit(browseFiles(World, nIn + 1, failed))
  /\ nIn' = nIn + 1
  /\ UNCHANGED <<ws, heartbeatTimer, reconnectTimer, reconnectDelay,
                 isShuttingDown, lastHb, nConn, nQuiet, started, hbTimers, waits>>
  /\ UNCHANGED <<dec, budget, call>>

\* Message types handleMessage has no case for.
UnknownTypes == {"ping", "status"}

\* An answer to an unknown type that also sets the status back to online.
unknownTypeResets(W, rid, type) ==
  [ sendResponse(W, rid, Resp("error", 0, "Unknown command type: " \o type, "", 0))
    EXCEPT !.status = "online" ]

\* handleMessage, any other type: one error naming the type.
unknownType(W, rid, type) ==
  sendResponse(W, rid, Resp("error", 0, "Unknown command type: " \o type, "", 0))

HandleUnknown ==
  /\ CanReceive
  /\ \E type \in UnknownTypes : Commit(unknownType(World, nIn + 1, type))
  /\ nIn' = nIn + 1
  /\ UNCHANGED <<ws, heartbeatTimer, reconnectTimer, reconnectDelay,
                 isShuttingDown, lastHb, nConn, nQuiet, started, hbTimers, waits>>
  /\ UNCHANGED <<dec, br, budget, call>>

\* A catch that answers with an error and gives up the running command.
invalidMessageAnswers(W, rid) ==
  [ sendResponse(W, rid, Resp("error", 0, "Invalid message received", "", 0))
    EXCEPT !.status = "online" ]

\* handleMessage, JSON.parse throws: the catch logs and returns.
invalidMessage(W, rid) == W

\* handleMessage, text that is not JSON: logged and ignored.
HandleInvalid ==
  /\ CanReceive
  /\ Commit(invalidMessage(World, nIn + 1))
  /\ nIn' = nIn + 1
  /\ UNCHANGED <<ws, heartbeatTimer, reconnectTimer, reconnectDelay,
                 isShuttingDown, lastHb, nConn, nQuiet, started, hbTimers, waits>>
  /\ UNCHANGED <<dec, br, budget, call>>

\* ------------------------------------------------------- the subprocess
\* The subprocess appends one line to its stdout sink.
ProcWrite(e) ==
  /\ exs[e].run = "running"
  /\ MayInput
  /\ \E l \in Lines : exs' = [exs EXCEPT ![e].file = Append(@, l)]
  /\ UNCHANGED <<cmVars, nQuiet, dec>>

\* The same, the line being any of the lines with or without a session_id.
ProcWriteSession(e) ==
  /\ exs[e].run = "running"
  /\ MayInput
  /\ \E l \in SessionLines : exs' = [exs EXCEPT ![e].file = Append(@, l)]
  /\ UNCHANGED <<cmVars, nQuiet, dec>>

\* More than 30 s pass without the poll having read new output.
QuietElapse(e) ==
  /\ exs[e].run = "running"
  /\ ~exs[e].quiet
  /\ exs[e].offset = Len(exs[e].file)
  /\ MayInput
  /\ exs' = [exs EXCEPT ![e].quiet = TRUE]
  /\ nQuiet' = nQuiet + 1
  /\ UNCHANGED <<cmVars, dec>>

\* A poll callback whose watchdog does not look at its latch.
pollTickNoLatch(W, e) ==
  IF Len(W.exs[e].file) > W.exs[e].offset
  THEN [ processBuffer(W, e) EXCEPT !.exs[e].quiet = FALSE,
                                    !.exs[e].noOutputWarned = FALSE ]
  ELSE IF W.exs[e].quiet
       THEN emit([W EXCEPT !.exs[e].noOutputWarned = TRUE], e, Ev("message"))
       ELSE W

\* The 200 ms poll callback: new bytes beyond the offset are read, decoded
\* and the watchdog reset; with no new bytes, one advisory message once the
\* output has been quiet for more than 30 s.
pollTick(W, e) ==
  IF Len(W.exs[e].file) > W.exs[e].offset
  THEN [ processBuffer(W, e) EXCEPT !.exs[e].quiet = FALSE,
                                    !.exs[e].noOutputWarned = FALSE ]
  ELSE IF W.exs[e].quiet /\ ~W.exs[e].noOutputWarned
       THEN emit([W EXCEPT !.exs[e].noOutputWarned = TRUE], e, Ev("message"))
       ELSE W

PollTick(e) ==
  /\ exs[e].run = "running"
  /\ pollTick(World, e) # World
  /\ Commit(pollTick(World, e))
  /\ UNCHANGED <<ws, heartbeatTimer, reconnectTimer, reconnectDelay,
                 isShuttingDown, lastHb, nIn, nConn, nQuiet, started, hbTimers, waits>>
  /\ UNCHANGED <<dec, br, budget, call>>

\* The diagnostics the close handler hands to the exit event: for a non-zero
\* code the stderr sink, else the stdout sink if, trimmed, it is not empty
\* and does not start with '{'.
diagnostics(ex, code, stderr) ==
  LET text == { i \in 1..Len(ex.file) : ex.file[i].type # "blank" }
  IN  IF code = 0 THEN ""
      ELSE IF stderr # "" THEN stderr
      ELSE IF text # {} /\ ex.file[CHOOSE i \in text : \A j \in text : i <= j].type = "junk"
           THEN "stdout"
      ELSE ""

\* A close handler that emits exit and resolves before the final read.
procCloseExitFirst(W, e, code, stderr) ==
  LET d  == diagnostics(W.exs[e], code, stderr)
      W1 == [W EXCEPT !.exs[e].run = "closed", !.exs[e].code = code, !.exs[e].diag = d]
      W2 == emit(W1, e, [Ev("exit") EXCEPT !.code = code, !.diag = d])
  IN  processBuffer([W2 EXCEPT !.exs[e].promise = "resolved"], e)

\* process.on('close'): the poll stops, the rest of the sink is read and
\* decoded, then exit is emitted with the code and the diagnostics, then
\* the promise is resolved.
procClose(W, e, code, stderr) ==
  LET d  == diagnostics(W.exs[e], code, stderr)
      W1 == processBuffer(W, e)
      W2 == [W1 EXCEPT !.exs[e].run = "closed", !.exs[e].code = code, !.exs[e].diag = d]
      W3 == emit(W2, e, [Ev("exit") EXCEPT !.code = code, !.diag = d])
  IN  [W3 EXCEPT !.exs[e].promise = "resolved"]

ProcClose(e) ==
  /\ exs[e].run = "running"
  /\ \E code \in ExitCodes, stderr \in StderrTexts :
       /\ (code = -1 => exs[e].sig > 0)
       /\ Commit(procClose(World, e, code, stderr))
  /\ UNCHANGED <<ws, heartbeatTimer, reconnectTimer, reconnectDelay,
                 isShuttingDown, lastHb, nIn, nConn, nQuiet, started, hbTimers, waits>>
  /\ UNCHANGED <<dec, br, budget, call>>

Disconnect ==
  /\ started
  /\ disconnect

Next ==
  \/ Start
  \/ WsOpen
  \/ WsClosing
  \/ WsClose
  \/ ReconnectFire
  \/ HeartbeatTick
  \/ Disconnect
  \/ HandleCommand
  \/ HandleCancel
  \/ HandleBrowse
  \/ HandleUnknown
  \/ HandleInvalid
  \/ \E e \in 1..Len(exs) : ProcWrite(e)
  \/ \E e \in 1..Len(exs) : QuietElapse(e)
  \/ \E e \in 1..Len(exs) : PollTick(e)
  \/ \E e \in 1..Len(exs) : ProcClose(e)

Spec == Init /\ [][Next]_vars

\* The handlers that read or write the status or an executor, with the
\* subprocesses and the transport as their environment, under the
\* assumption that a running subprocess eventually closes.
LiveNext ==
  \/ Start
  \/ WsOpen
  \/ WsClose
  \/ ReconnectFire
  \/ Disconnect
  \/ HandleCommand
  \/ HandleCancel
  \/ \E e \in 1..Len(exs) : ProcWrite(e)
  \/ \E e \in 1..Len(exs) : QuietElapse(e)
  \/ \E e \in 1..Len(exs) : PollTick(e)
  \/ \E e \in 1..Len(exs) : ProcClose(e)

LiveSpec ==
  Init /\ [][LiveNext]_vars /\ WF_vars(\E e \in 1..Len(exs) : ProcClose(e))

\* ------------------------------------------------- the executor by itself
\* A harness constructs executors, attaches listeners that only record the
\* events, and calls execute() (with or without timeout_ms) and cancel().
XConstruct ==
  /\ MayInput
  /\ exs' = Append(exs, NewExecutor(0))
  /\ nIn' = nIn + 1
  /\ UNCHANGED <<ws, executor, heartbeatTimer, reconnectTimer, reconnectDelay,
                 currentStatus, currentSessionId, isShuttingDown, out, lastHb,
                 nConn, nQuiet, started, hbTimers, waits>>
  /\ UNCHANGED <<dec, br, budget, call>>

XExecute(e) ==
  /\ exs[e].run = "idle"
  /\ \E outcome \in {"preflight_failed", "spawn_failed", "running"},
        tmo \in BOOLEAN, closeFires \in BOOLEAN :
       /\ (closeFires => outcome = "spawn_failed")
       /\ Commit(execute(World, e, outcome, tmo, closeFires))
  /\ UNCHANGED <<ws, heartbeatTimer, reconnectTimer, reconnectDelay,
                 isShuttingDown, lastHb, nIn, nConn, nQuiet, started, hbTimers, waits>>
  /\ UNCHANGED <<dec, br, budget, call>>

XCancel(e) ==
  /\ MayInput
  /\ exs' = [exs EXCEPT ![e] = cancel(@)]
  /\ nIn' = nIn + 1
  /\ UNCHANGED <<ws, executor, heartbeatTimer, reconnectTimer, reconnectDelay,
                 currentStatus, currentSessionId, isShuttingDown, out, lastHb,
                 nConn, nQuiet, started, hbTimers, waits>>
  /\ UNCHANGED <<dec, br, budget, call>>

\* A timeout callback that does not look at process.killed.
timeoutFireUnguarded(W, e) ==
  emit([W EXCEPT !.exs[e].timer = "fired", !.exs[e] = kill(@)], e,
       [Ev("error") EXCEPT !.why = "timeout"])

\* The timeout timer's callback: if there is a process not marked killed,
\* SIGTERM and a timeout error event.  The timer is never cleared.
timeoutFire(W, e) ==
  LET W1 == [W EXCEPT !.exs[e].timer = "fired"]
  IN  IF hasProcess(W.exs[e]) /\ ~W.exs[e].killed
      THEN emit([W1 EXCEPT !.exs[e] = kill(@)], e, [Ev("error") EXCEPT !.why = "timeout"])
      ELSE W1

TimerFire(e) ==
  /\ exs[e].timer = "armed"
  /\ Commit(timeoutFire(World, e))
  /\ UNCHANGED <<ws, heartbeatTimer, reconnectTimer, reconnectDelay,
                 isShuttingDown, lastHb, nIn, nConn, nQuiet, started, hbTimers, waits>>
  /\ UNCHANGED <<dec, br, budget, call>>

ExecNext ==
  \/ XConstruct
  \/ \E e \in 1..Len(exs) : XExecute(e)
  \/ \E e \in 1..Len(exs) : XCancel(e)
  \/ \E e \in 1..Len(exs) : TimerFire(e)
  \/ \E e \in 1..Len(exs) : ProcWrite(e)
  \/ \E e \in 1..Len(exs) : QuietElapse(e)
  \/ \E e \in 1..Len(exs) : PollTick(e)
  \/ \E e \in 1..Len(exs) : ProcClose(e)

ExecSpec == Init /\ [][ExecNext]_vars

\* ---------------------------------------------------- the decoder harness
\* Valid UTF-8: the two bytes of the two-byte character only come together.
ValidUtf8(bs) ==
  \A i \in 1..Len(bs) :
    /\ bs[i] = "hi" => (i < Len(bs) /\ bs[i + 1] = "lo")
    /\ bs[i] = "lo" => (i > 1 /\ bs[i - 1] = "hi")

\* The output texts the subprocess may produce.
Texts == { t \in UNION { [1..n -> Bytes] : n \in 0..MaxBytes } : ValidUtf8(t) }

DecInit ==
  /\ IdleManager
  /\ dec \in { NewDecoder(t) : t \in Texts }
  /\ br = NewBrowse(<<>>, <<>>, FALSE)
  /\ budget = MaxEvents
  /\ call = NoCall

\* A read finds k new bytes (a poll tick, the final drain, or a stdout data
\* event of the direct-stream executor).
Feed(k) ==
  /\ ~dec.closed
  /\ dec.fed + k <= Len(dec.bytes)
  /\ dec' = feed(dec, k)
  /\ UNCHANGED <<cmVars, exs, nQuiet>>

\* The subprocess closes, whatever has been read so far: the final drain.
Drain ==
  /\ ~dec.closed
  /\ dec' = drain(dec)
  /\ UNCHANGED <<cmVars, exs, nQuiet>>

DecNext ==
  \/ \E k \in 1..MaxBytes : Feed(k)
  \/ Drain

DecSpec == DecInit /\ [][DecNext]_vars

\* The same text given to both executors: the sink poll reads it in its
\* chunks while the pipe delivers it in chunks of its own; the pipe has
\* ended when 'close' fires.
Data(k) ==
  /\ ~dec.direct.closed
  /\ dec.direct.fed + k <= Len(dec.bytes)
  /\ dec' = [dec EXCEPT !.direct = onData(@, k)]
  /\ UNCHANGED <<cmVars, exs, nQuiet>>

StreamClose ==
  /\ ~dec.direct.closed
  /\ dec.direct.fed = Len(dec.bytes)
  /\ dec' = [dec EXCEPT !.direct = onClose(@)]
  /\ UNCHANGED <<cmVars, exs, nQuiet>>

StreamNext ==
  \/ \E k \in 1..MaxBytes : Feed(k)
  \/ Drain
  \/ \E k \in 1..MaxBytes : Data(k)
  \/ StreamClose

StreamSpec == DecInit /\ [][StreamNext]_vars

\* ---------------------------------------------------- the listing harness
\* What readdirSync may return: entries with distinct names, in any order,
\* each a directory or not ('.' and '..' are never among them).
Dirents == [name : { Names[i] : i \in 1..Len(Names) }, isDirectory : BOOLEAN]
Directories ==
  { d \in UNION { [1..n -> Dirents] : n \in 0..MaxEntries } :
      \A i, j \in 1..Len(d) : i # j => d[i].name # d[j].name }

\* The filesystem root and a directory below it.
TargetPaths == { <<>>, <<"home">> }

BrowseInit ==
  /\ IdleManager
  /\ dec = NewDecoder(<<>>)
  /\ budget = MaxEvents
  /\ br \in { NewBrowse(t, d, FALSE) : t \in TargetPaths, d \in Directories }
           \cup { NewBrowse(t, <<>>, TRUE) : t \in TargetPaths }
  /\ call = NoCall

\* browseFiles builds its result: the listing, or the error of a failed read
\* with no entries.
Browse ==
  /\ ~br.done
  /\ br' = browse(br)
  /\ UNCHANGED <<ws, executor, heartbeatTimer, reconnectTimer, reconnectDelay,
                 currentStatus, currentSessionId, isShuttingDown, exs, out, lastHb,
                 nIn, nConn, nQuiet, started, hbTimers, waits, dec, budget, call>>

BrowseNext == Browse

BrowseSpec == BrowseInit /\ [][BrowseNext]_vars

\* ------------------------------------------------ the invocation harness
ToolLists == { NoTools, Tools(<<>>), Tools(<<"Read">>), Tools(<<"Read", "Glob">>) }
SessionIds == { Undefined, "", "s1" }
Commands ==
  [ type : {"command", "resume"}, prompt : {"fix it"}, session_id : SessionIds,
    allowed_tools : ToolLists ]
Configs == [ allowed_tools : ToolLists ]
Options ==
  [ prompt : {"fix it"}, session_id : SessionIds, allowed_tools : ToolLists,
    mcp_config_path : {Undefined, "", "mcp.json"},
    system_prompt_append : {Undefined, "", "be brief"} ]

ArgsInit ==
  /\ IdleManager
  /\ dec = NewDecoder(<<>>)
  /\ br = NewBrowse(<<>>, <<>>, FALSE)
  /\ budget = MaxEvents
  /\ call \in { NewCall(c, g) : c \in Commands, g \in Configs }

\* executeCommand builds the options from the command and the configuration.
ManagerOptions ==
  /\ call.stage = "new"
  /\ call' = [call EXCEPT !.stage = "options", !.by = "manager",
                          !.options = executeOptions(call.command, call.config)]
  /\ UNCHANGED <<ws, executor, heartbeatTimer, reconnectTimer, reconnectDelay,
                 currentStatus, currentSessionId, isShuttingDown, exs, out, lastHb,
                 nIn, nConn, nQuiet, started, hbTimers, waits, dec, br, budget>>

\* Another caller of execute() passes options of its own.
CallerOptions ==
  /\ call.stage = "new"
  /\ \E o \in Options :
       call' = [call EXCEPT !.stage = "options", !.by = "caller", !.options = o]
  /\ UNCHANGED <<ws, executor, heartbeatTimer, reconnectTimer, reconnectDelay,
                 currentStatus, currentSessionId, isShuttingDown, exs, out, lastHb,
                 nIn, nConn, nQuiet, started, hbTimers, waits, dec, br, budget>>

\* execute() of the sink-poll executor builds the argument list.
ExecuteArgs ==
  /\ call.stage = "options"
  /\ call' = [call EXCEPT !.stage = "done", !.impl = "sink", !.args = args(call.options)]
  /\ UNCHANGED <<ws, executor, heartbeatTimer, reconnectTimer, reconnectDelay,
                 currentStatus, currentSessionId, isShuttingDown, exs, out, lastHb,
                 nIn, nConn, nQuiet, started, hbTimers, waits, dec, br, budget>>

\* execute() of the direct-stream executor builds the argument list.
DirectExecuteArgs ==
  /\ call.stage = "options"
  /\ call' = [call EXCEPT !.stage = "done", !.impl = "direct",
                          !.args = directArgs(call.options)]
  /\ UNCHANGED <<ws, executor, heartbeatTimer, reconnectTimer, reconnectDelay,
                 currentStatus, currentSessionId, isShuttingDown, exs, out, lastHb,
                 nIn, nConn, nQuiet, started, hbTimers, waits, dec, br, budget>>

ArgsNext ==
  \/ ManagerOptions
  \/ CallerOptions
  \/ ExecuteArgs
  \/ DirectExecuteArgs

ArgsSpec == ArgsInit /\ [][ArgsNext]_vars

\* ------------------------------------------- two commands, one after another
\* The manager with its transport up, commands and cancels coming in and
\* subprocesses writing, with room for one more input than elsewhere: a
\* second command's output after a first command's output.
SessionInit ==
  /\ IdleManager
  /\ dec = NewDecoder(<<>>)
  /\ br = NewBrowse(<<>>, <<>>, FALSE)
  /\ budget = MaxEvents + 1
  /\ call = NoCall

SessionNext ==
  \/ Start
  \/ WsOpen
  \/ HandleCommand
  \/ HandleCancel
  \/ \E e \in 1..Len(exs) : ProcWriteSession(e)
  \/ \E e \in 1..Len(exs) : PollTick(e)
  \/ \E e \in 1..Len(exs) : ProcClose(e)

SessionSpec == SessionInit /\ [][SessionNext]_vars

\* ================================================================ claims
Execs == 1..Len(exs)

\* The responses handed over on account of executor e, under any
\* request_id, by position in the log.
Reports(e) ==
  { p \in UNION { { <<r, i>> : i \in 1..Len(out[r]) } : r \in Rids } :
      out[p[1]][p[2]].exec = e }
At(p) == out[p[1]][p[2]]

IsTerminal(m) == m.type \in {"result", "error"}
TerminalCount(e) == Cardinality({ p \in Reports(e) : IsTerminal(At(p)) })
SentTerminalCount(e) == Cardinality({ p \in Reports(e) : IsTerminal(At(p)) /\ At(p).sent })
ErrorCount(e) == Cardinality({ p \in Reports(e) : At(p).type = "error" })
SentCancelledCount(e) ==
  Cardinality({ p \in Reports(e) : At(p).why = "cancelled" /\ At(p).sent })
Has(seq, x) == \E i \in 1..Len(seq) : seq[i] = x

\* C1: at every instant at most one subprocess started by the manager is
\* live (spawned and not yet closed).
C1_AtMostOneLiveSubprocess ==
  Cardinality({ e \in Execs : exs[e].run = "running" }) <= 1

\* C2: a command arriving while the status is busy gets exactly one busy
\* error under its own request_id, sent on the transport; no executor is
\* created for it then or later; the status, the executor reference, every
\* executor and every other request's responses stay as they were.
BusyError(rid) == [Resp("error", 0, "busy", "", 0) EXCEPT !.sent = TRUE]
C2_BusyRejection ==
  [][ /\ (HandleCommand /\ currentStatus = "busy") =>
          /\ out' = [out EXCEPT ![nIn + 1] = <<BusyError(nIn + 1)>>]
          /\ exs' = exs
          /\ executor' = executor
          /\ currentStatus' = "busy"
          /\ currentSessionId' = currentSessionId
      /\ \A r \in Rids :
            Has(out'[r], BusyError(r)) =>
              /\ out'[r] = <<BusyError(r)>>
              /\ \A e \in 1..Len(exs') : exs'[e].rid # r ]_vars

\* C2 witness: B was rejected as busy while A's subprocess ran, and A went
\* on to deliver its result.
C2_Witness ==
  \E r \in Rids, e \in Execs :
    /\ out[r] = <<BusyError(r)>>
    /\ exs[e].rid < r
    /\ exs[e].emitted = <<"message", "result">>
    /\ \E i \in 1..Len(out[exs[e].rid]) :
         out[exs[e].rid][i].type = "result" /\ out[exs[e].rid][i].sent

\* C3: for each accepted command at most one terminal report (result-kind
\* or error-kind, the cancellation result included) goes out.
C3_OneTerminalReport ==
  \A e \in Execs : SentTerminalCount(e) <= 1

\* C4: whenever the status is busy it eventually is online again, given
\* that every subprocess eventually closes; and after any step in which an
\* executor emitted a result, error or exit event, or in which a command
\* failed to start, the status is online.
EmittedSince(e) ==
  IF e <= Len(exs)
  THEN { exs'[e].emitted[i] : i \in (Len(exs[e].emitted) + 1)..Len(exs'[e].emitted) }
  ELSE { exs'[e].emitted[i] : i \in 1..Len(exs'[e].emitted) }
C4_NeverStuckBusy ==
  /\ [][ \A e \in 1..Len(exs') :
           ( \/ EmittedSince(e) \cap {"result", "error", "exit"} # {}
             \/ (e > Len(exs) /\ exs'[e].run # "running") )
           => currentStatus' = "online" ]_vars
  /\ ((currentStatus = "busy") ~> (currentStatus = "online"))

\* C4 witness: a subprocess closed without a result line while the status
\* was busy, and the status is online.
C4_Witness ==
  \E e \in Execs :
    /\ exs[e].run = "closed"
    /\ exs[e].emitted = <<"exit">>
    /\ \E i \in 1..Len(out[exs[e].rid]) : out[exs[e].rid][i].why = "exit+nodiag"
    /\ currentStatus = "online"

\* C5: a command that fails before running (preflight or spawn) gets
\* exactly one error response; after a preflight failure there is no
\* subprocess and the executor has emitted no event.
C5_StartFailureReportedOnce ==
  \A e \in Execs :
    /\ exs[e].run \in {"preflight_failed", "spawn_failed"} => ErrorCount(e) = 1
    /\ exs[e].run = "preflight_failed" => exs[e].emitted = <<>> /\ exs[e].sig = 0

\* C6: a subprocess that exits with a non-zero code without a result line,
\* with no cancel, timeout or later command in between, gets exactly one
\* error response, carrying the diagnostics if there are any, and the
\* status is online afterwards.
C6_ExitWithoutResultReported ==
  \A e \in Execs :
    ( /\ exs[e].run = "closed"
      /\ exs[e].code # 0
      /\ exs[e].emitted = <<"exit">>
      /\ exs[e].sig = 0
      /\ { p \in Reports(e) : At(p).why = "cancelled" } = {}
      /\ Len(exs) = e )
    => /\ ErrorCount(e) = 1
       /\ \A p \in Reports(e) :
            At(p).why = (IF exs[e].diag # "" THEN "exit+diag" ELSE "exit+nodiag")
       /\ currentStatus = "online"

\* C7: the status goes from online to busy only when a command is accepted,
\* and from busy to online only on a result, error or exit event of the
\* current executor or on a cancel message.
TerminalEventOf(e) ==
  /\ e # 0
  /\ \E i \in (Len(exs[e].emitted) + 1)..Len(exs'[e].emitted) :
       exs'[e].emitted[i] \in {"result", "error", "exit"}
C7_StatusMachine ==
  [][ /\ (currentStatus = "online" /\ currentStatus' = "busy") =>
          (HandleCommand /\ Len(exs') = Len(exs) + 1)
      /\ (currentStatus = "busy" /\ currentStatus' = "online") =>
          (HandleCancel \/ TerminalEventOf(executor)) ]_vars

\* C8: for one execution at most one cancellation result is sent, and a
\* cancel arriving after the execution's terminal report sends nothing.
C8_SingleCancellationResult ==
  [][ /\ \A e \in Execs : SentCancelledCount(e)' <= 1
      /\ (HandleCancel /\ executor # 0 /\ TerminalCount(executor) > 0) => out' = out ]_vars

\* C9: cancel() never emits an event, signals only a process that exists
\* and is not yet marked killed, and a second cancel() changes nothing; no
\* subprocess ever receives more than one SIGTERM.
C9_CancelIdempotent ==
  [][ \A e \in Execs :
        /\ exs'[e].sig <= 1
        /\ XCancel(e) =>
             /\ exs'[e].emitted = exs[e].emitted
             /\ exs'[e].sig # exs[e].sig => (hasProcess(exs[e]) /\ ~exs[e].killed)
             /\ cancel(exs'[e]) = exs'[e] ]_vars

\* C9 witness: cancel() has signalled a running subprocess (no timer was
\* set), the subprocess has closed, and cancel() was called again after.
C9_Witness ==
  \E e \in Execs :
    /\ exs[e].timer = "none"
    /\ exs[e].killed
    /\ exs[e].sig = 1
    /\ exs[e].run = "closed"
    /\ nIn >= 3

\* C10: once the subprocess has closed, the timeout timer's callback is a
\* no-op: it delivers no signal and emits no event.
C10_TimerNoOpAfterExit ==
  [][ \A e \in Execs :
        (TimerFire(e) /\ exs[e].run = "closed") =>
          (exs'[e].emitted = exs[e].emitted /\ exs'[e].sig = exs[e].sig) ]_vars

\* C11: the timeout timer fires at most once per execution; firing while the
\* subprocess runs unsignalled, it delivers one SIGTERM and emits exactly one
\* error event; firing after cancel() has signalled the subprocess, it
\* delivers nothing and emits nothing.
C11_TimeoutFires ==
  [][ \A e \in Execs :
        /\ exs[e].timer = "fired" => exs'[e].timer = "fired"
        /\ TimerFire(e) =>
             /\ exs[e].timer = "armed" /\ exs'[e].timer = "fired"
             /\ (exs[e].run = "running" /\ ~exs[e].killed) =>
                  /\ exs'[e].sig = exs[e].sig + 1
                  /\ exs'[e].killed
                  /\ exs'[e].emitted = Append(exs[e].emitted, "error")
             /\ exs[e].killed =>
                  /\ exs'[e].sig = exs[e].sig
                  /\ exs'[e].emitted = exs[e].emitted ]_vars

\* C11 witness: one timer fired on an unsignalled running subprocess, and
\* another fired on a subprocess cancel() had already signalled.
C11_Witness ==
  \E e1, e2 \in Execs :
    /\ exs[e1].timer = "fired" /\ exs[e1].emitted = <<"error">> /\ exs[e1].sig = 1
    /\ exs[e2].timer = "fired" /\ exs[e2].emitted = <<>> /\ exs[e2].sig = 1

\* C12: every reconnect timer is set with a delay between the base and the
\* ceiling, and the timer set after a failed reconnect attempt (the socket
\* closed without opening, or connect() threw) waits twice the previous
\* wait, capped at the ceiling.
C12_BackoffDoubles ==
  [][ Len(waits') = Len(waits) + 1 =>
        LET w == waits'[Len(waits')]
        IN  /\ RECONNECT_DELAY_MS <= w /\ w <= MAX_RECONNECT_DELAY_MS
            /\ (waits # <<>> /\ (ReconnectFire \/ (WsClose /\ ws = "CONNECTING")))
                 => w = Min(2 * waits[Len(waits)], MAX_RECONNECT_DELAY_MS) ]_vars

\* C13: the open handler sets the reconnect delay to the base delay, and
\* the reconnect timer set when an opened connection closes (not shutting
\* down) waits exactly the base delay.
C13_ResetOnOpen ==
  [][ /\ WsOpen => reconnectDelay' = RECONNECT_DELAY_MS
      /\ (WsClose /\ ws \in {"OPEN", "CLOSING"} /\ ~isShuttingDown)
           => /\ reconnectTimer' = "pending"
              /\ waits' = Append(waits, RECONNECT_DELAY_MS) ]_vars

\* C13 witness: a reconnect attempt failed and raised the delay, the next
\* one opened, and after the connection closed the timer waits the base
\* delay again.
C13_Witness ==
  /\ waits = <<RECONNECT_DELAY_MS, 2 * RECONNECT_DELAY_MS, RECONNECT_DELAY_MS>>
  /\ ws = "CLOSED"
  /\ reconnectTimer = "pending"

\* C14: once the shutting-down flag is set it stays set, no connect attempt
\* is started, no reconnect timer is set or fires, and no socket is
\* connecting or reconnect timer pending.
C14_NoReconnectAfterShutdown ==
  [][ isShuttingDown =>
        /\ isShuttingDown'
        /\ ~Start /\ ~ReconnectFire
        /\ waits' = waits /\ nConn' = nConn
        /\ ws' # "CONNECTING" /\ ws' \in {ws, "CLOSED"}
        /\ reconnectTimer' # "pending" ]_vars

\* C14 witness: disconnect() was called while a reconnect timer was pending
\* after a failed attempt, and the timer is cleared.
C14_Witness ==
  /\ isShuttingDown
  /\ reconnectTimer = "cleared"
  /\ ws = "CLOSED"
  /\ nConn >= 1

\* C15: unless it is shutting down, a started manager without a connecting,
\* open or closing socket has a reconnect timer pending.
C15_ReconnectAlwaysPending ==
  (started /\ ~isShuttingDown /\ ws \in {"null", "CLOSED"}) => reconnectTimer = "pending"

\* C16: once disconnect() has run, the flag is set, no heartbeat timer and
\* no reconnect timer is active, every subprocess still running has been
\* sent SIGTERM, the socket is closing or closed if there is one, and no
\* heartbeat is sent in any later step.
C16_DisconnectCleansUp ==
  [][ isShuttingDown' =>
        /\ ~heartbeatTimer' /\ hbTimers' = 0
        /\ reconnectTimer' # "pending"
        /\ ws' \in {"null", "CLOSING", "CLOSED"}
        /\ \A e \in 1..Len(exs') : exs'[e].run = "running" => exs'[e].sig >= 1
        /\ isShuttingDown => lastHb' = lastHb ]_vars

\* C17: the open handler starts the heartbeat timer and sends a heartbeat,
\* every close stops the timer, at most one heartbeat interval is ever
\* active and only on a socket that opened, a heartbeat goes out only on an
\* open socket and carries the status of that moment, and a tick that finds
\* the socket not open changes nothing.
HeartbeatNow == [status |-> currentStatus, session |-> currentSessionId, on |-> "OPEN"]
C17_HeartbeatOnlyWhileOpen ==
  [][ /\ WsOpen => (heartbeatTimer' /\ hbTimers' = 1 /\ lastHb' = HeartbeatNow')
      /\ WsClose => (~heartbeatTimer' /\ hbTimers' = 0)
      /\ hbTimers' <= 1 /\ (heartbeatTimer' <=> hbTimers' = 1)
      /\ heartbeatTimer' => ws' \in {"OPEN", "CLOSING"}
      /\ HeartbeatTick =>
           IF ws = "OPEN" THEN lastHb' = HeartbeatNow ELSE UNCHANGED vars
      /\ lastHb' # lastHb => (ws' = "OPEN" /\ lastHb' = HeartbeatNow') ]_vars

\* C17 witness: after a reconnect, a tick on the open socket reported busy.
C17_Witness ==
  /\ ws = "OPEN"
  /\ heartbeatTimer
  /\ waits # <<>>
  /\ currentStatus = "busy"
  /\ lastHb = HeartbeatNow

\* C18: in the responses of one command, nothing is sent after the result
\* message relayed from a result line, and once the subprocess has closed
\* that message was sent exactly if the output had a result line.
IsRelayedResult(m) == m.type = "result" /\ m.why = "result"
C18_ResultIsLast ==
  \A e \in Execs :
    LET log == out[exs[e].rid]
    IN  /\ \A i, j \in 1..Len(log) :
             (i < j /\ IsRelayedResult(log[i]) /\ log[i].sent) => ~log[j].sent
        /\ exs[e].run = "closed" =>
             ( (\E i \in 1..Len(log) : IsRelayedResult(log[i]) /\ log[i].sent)
               <=> (\E k \in 1..Len(exs[e].file) : exs[e].file[k].type = "result") )

\* C19: the stream messages relayed for the lines of one execution are
\* handed over, and sent, in the order of the lines in the output, each line
\* at most once, whatever the poll ticks and the final drain read.
RelayedLine(m, e) == m.type = "stream" /\ m.exec = e /\ m.line > 0
C19_StreamInLineOrder ==
  \A e \in Execs :
    LET log == out[exs[e].rid]
    IN  \A i, j \in 1..Len(log) :
          (i < j /\ RelayedLine(log[i], e) /\ RelayedLine(log[j], e))
            => log[i].line < log[j].line

\* C19 witness: two lines were relayed and sent in their order, and the
\* subprocess has closed.
C19_Witness ==
  \E e \in Execs :
    LET log == out[exs[e].rid]
    IN  /\ exs[e].run = "closed"
        /\ Len(log) >= 2
        /\ \A i \in 1..2 : RelayedLine(log[i], e) /\ log[i].line = i /\ log[i].sent

\* C20: for a well-formed text (valid UTF-8, every complete line a JSON
\* object, what follows the last newline empty or the beginning of one),
\* however it was cut into chunks, once all of it has been fed the events
\* emitted and the fragment left in the buffer are those of feeding the
\* whole text at once.
WellFormed(bs) ==
  /\ ValidUtf8(bs)
  /\ LET pieces == split(toString(bs))
         last   == pieces[Len(pieces)]
     IN  /\ \A i \in 1..(Len(pieces) - 1) : parses(pieces[i])
         /\ last # <<>> => (last[1] = "{" /\ \A i \in 2..Len(last) : last[i] \notin {"{", "}"})
AtOnce(bs) == feed(NewDecoder(bs), Len(bs))
C20_ChunkingInvariant ==
  (WellFormed(dec.bytes) /\ dec.fed = Len(dec.bytes)) =>
    /\ dec.events = AtOnce(dec.bytes).events
    /\ dec.buffer = AtOnce(dec.bytes).buffer

\* C21: once the subprocess has closed, the message events are exactly the
\* valid JSON lines of its output, one event per line, in order and with
\* the line's content unchanged, the last line included whether or not a
\* newline ends it, however the output was cut into reads.
IsMessage(ev) == ev.kind = "message"
ContentOf(evs) == [i \in 1..Len(evs) |-> evs[i].msg]
C21_EveryJsonLineOnce ==
  dec.closed =>
    ContentOf(SelectSeq(dec.events, IsMessage)) = SelectSeq(split(toString(dec.bytes)), parses)

\* C22: the final drain decodes everything the buffer then holds, the
\* fragment after the last newline included, as lines attempted once each,
\* and leaves the buffer empty.
C22_FlushOnExit ==
  [][ Drain =>
        /\ dec'.buffer = <<>>
        /\ dec'.events =
             dec.events \o linesEvents(split(dec.buffer \o
               toString(SubSeq(dec.bytes, dec.fed + 1, Len(dec.bytes))))) ]_vars

\* C23: every response produced from an executor's events goes out under
\* the request_id of the command that created the executor, and a stream
\* message relayed for a line carries the session id that executor held
\* once it had decoded that line.
RECURSIVE sessionAfter(_, _)
sessionAfter(file, n) ==
  IF n = 0 THEN ""
  ELSE IF file[n].type = "junk" THEN sessionAfter(file, n - 1)
       ELSE captureSessionId(sessionAfter(file, n - 1), file[n])
C23_RelayCorrelation ==
  \A e \in Execs :
    \A p \in Reports(e) :
      At(p).why # "cancelled" =>
        /\ p[1] = exs[e].rid
        /\ RelayedLine(At(p), e) => At(p).sid = sessionAfter(exs[e].file, At(p).line)

\* C24: a message of a type handleMessage has no case for gets exactly one
\* error response, under its own request_id and naming the type, sent on
\* the transport; the status, the executor reference, every executor and
\* every timer stay as they were.
UnknownError(type) ==
  [Resp("error", 0, "Unknown command type: " \o type, "", 0) EXCEPT !.sent = TRUE]
C24_UnknownTypeRejected ==
  [][ HandleUnknown =>
        /\ \E type \in UnknownTypes :
             out' = [out EXCEPT ![nIn + 1] = Append(@, UnknownError(type))]
        /\ UNCHANGED <<currentStatus, currentSessionId, executor, exs, heartbeatTimer,
                       hbTimers, reconnectTimer, reconnectDelay, waits>> ]_vars

\* C24 witness: a message of an unknown type was answered while a command's
\* subprocess was running, and the status is still busy.
C24_Witness ==
  \E r \in Rids, type \in UnknownTypes :
    /\ out[r] = <<UnknownError(type)>>
    /\ currentStatus = "busy"
    /\ executor # 0
    /\ exs[executor].run = "running"
    /\ exs[executor].rid < r

\* C25: the entries of a listing are the directory's entries without the
\* dot-prefixed ones, all directories before all files, names ascending
\* within each group, with the parent entry '..' first exactly if the
\* target is not the root; {b.txt, A (a directory), a.txt} below the root
\* gives [.., A, a.txt, b.txt], whatever order the directory was read in.
ParentEntry == [name |-> "..", isDirectory |-> TRUE]
Range(xs) == { xs[i] : i \in 1..Len(xs) }
NamesOf(xs) == [i \in 1..Len(xs) |-> xs[i].name]
C25_ListingOrder ==
  (br.done /\ ~br.error) =>
    LET es     == br.entries
        isRoot == br.path = <<>>
        body   == IF isRoot THEN es ELSE Tail(es)
    IN  /\ ~isRoot => (es # <<>> /\ es[1] = ParentEntry)
        /\ \A i \in 1..Len(body) : body[i].name \notin {"..", ".env"}
        /\ Range(body) = { x \in Range(br.items) : x.name # ".env" }
        /\ Len(body) = Cardinality(Range(body))
        /\ \A i, j \in 1..Len(body) :
             i < j =>
               /\ body[i].isDirectory \/ ~body[j].isDirectory
               /\ body[i].isDirectory = body[j].isDirectory
                    => localeCompare(body[i].name, body[j].name) < 0
        /\ ( ~isRoot /\ Range(br.items) = { [name |-> "b.txt", isDirectory |-> FALSE],
                                            [name |-> "A",     isDirectory |-> TRUE],
                                            [name |-> "a.txt", isDirectory |-> FALSE] } )
             => NamesOf(es) = <<"..", "A", "a.txt", "b.txt">>

\* C25 witness: the directory below the root was read as b.txt, A (a
\* directory), a.txt, and the listing is [.., A, a.txt, b.txt].
C25_Witness ==
  /\ br.done
  /\ br.path # <<>>
  /\ NamesOf(br.items) = <<"b.txt", "A", "a.txt">>
  /\ br.items[2].isDirectory /\ ~br.items[1].isDirectory /\ ~br.items[3].isDirectory
  /\ NamesOf(br.entries) = <<"..", "A", "a.txt", "b.txt">>

NewEvents(e) == SubSeq(exs'[e].trace, Len(exs[e].trace) + 1, Len(exs'[e].trace))
IsAdvisory(ev) == ev.kind = "message" /\ ev.line = 0
C27_WatchdogOncePerEpisode ==
  [][ \A e \in Execs :
        LET new == NewEvents(e)
            adv == { i \in 1..Len(new) : IsAdvisory(new[i]) }
        IN  /\ adv # {} =>
                 /\ new = <<[kind |-> "message", line |-> 0, sid |-> ""]>>
                 /\ exs[e].run = "running" /\ exs'[e].run = "running"
                 /\ exs[e].offset = Len(exs[e].file)
                 /\ exs[e].quiet
                 /\ ~exs[e].noOutputWarned /\ exs'[e].noOutputWarned
                 /\ ~Has(exs[e].emitted, "exit")
            /\ (~exs[e].noOutputWarned /\ exs'[e].noOutputWarned) => adv # {}
            /\ (exs[e].noOutputWarned /\ ~exs'[e].noOutputWarned) =>
                 /\ exs'[e].offset > exs[e].offset
                 /\ ~exs'[e].quiet ]_vars

\* C27 witness: an advisory was emitted, then new output was read, which
\* released the latch and ended the silence.
C27_Witness ==
  \E e \in Execs :
    /\ Len(exs[e].trace) = 2
    /\ IsAdvisory(exs[e].trace[1])
    /\ exs[e].trace[2] = [kind |-> "message", line |-> 1, sid |-> exs[e].sessionId]
    /\ ~exs[e].noOutputWarned
    /\ ~exs[e].quiet

\* C28: an executor's session id is the session_id of the last decoded
\* line that carried a non-empty one (empty if there was none), so a line
\* without a session_id, an init line included, leaves it as it is, and
\* once non-empty it is never empty again.
LastSessionId(ls) ==
  LET with == { i \in 1..Len(ls) : ls[i].type # "junk" /\ ls[i].sid # "" }
  IN  IF with = {} THEN ""
      ELSE ls[CHOOSE i \in with : \A j \in with : j <= i].sid
C28_SessionIdKept ==
  [][ \A e \in 1..Len(exs') :
        /\ exs'[e].sessionId = LastSessionId(exs'[e].delivered)
        /\ (e <= Len(exs) /\ exs[e].sessionId # "") => exs'[e].sessionId # "" ]_vars

\* C28 witness: the lines init with s1, result with s2, init without a
\* session_id were decoded, and the session id is s2.
C28_Witness ==
  \E e \in Execs :
    /\ exs[e].delivered = << [type |-> "init",   sid |-> "s1", fields |-> NoFields],
                             [type |-> "result", sid |-> "s2", fields |-> AllFields],
                             [type |-> "init",   sid |-> "",   fields |-> NoFields] >>
    /\ exs[e].sessionId = "s2"

\* C29: once the manager's current session id is non-empty, no step makes
\* it empty again.
C29_ManagerSessionKept ==
  [][ currentSessionId # "" => currentSessionId' # "" ]_vars

\* C30: the result events of an executor are those of its decoded result
\* lines, one per line: each comes right after the message event of its
\* line, before any event of a later line, and carries the session id held
\* after that line, the line's result text or the empty text, its cost,
\* duration and turns or zero, its is_error or false; no other line has a
\* result event.
Expected(l, sessionId) ==
  [ session_id  |-> sessionId,
    result      |-> IF l.fields.result = Undefined THEN "" ELSE l.fields.result,
    cost_usd    |-> IF l.fields.total_cost_usd = Undefined THEN "0" ELSE l.fields.total_cost_usd,
    duration_ms |-> IF l.fields.duration_ms = Undefined THEN "0" ELSE l.fields.duration_ms,
    num_turns   |-> IF l.fields.num_turns = Undefined THEN "0" ELSE l.fields.num_turns,
    is_error    |-> IF l.fields.is_error = Undefined THEN "false" ELSE l.fields.is_error ]
C30_OneResultPerResultLine ==
  \A e \in Execs :
    LET tr == exs[e].trace
        dl == exs[e].delivered
        rs == exs[e].results
        at == { i \in 1..Len(tr) : tr[i].kind = "result" }
    IN  /\ Len(rs) = Cardinality(at)
        /\ \A i \in at :
             /\ tr[i].line \in 1..Len(dl)
             /\ dl[tr[i].line].type = "result"
             /\ i > 1 /\ tr[i - 1].kind = "message" /\ tr[i - 1].line = tr[i].line
             /\ \A j \in 1..Len(tr) :
                  (j > i /\ tr[j].line # 0) => tr[j].line > tr[i].line
             /\ tr[i].sid = LastSessionId(SubSeq(dl, 1, tr[i].line))
        /\ \A k \in 1..Len(dl) :
             Cardinality({ i \in at : tr[i].line = k }) = (IF dl[k].type = "result" THEN 1 ELSE 0)
        /\ \A n \in 1..Len(rs) :
             /\ rs[n].line \in 1..Len(dl)
             /\ rs[n].result = Expected(dl[rs[n].line], LastSessionId(SubSeq(dl, 1, rs[n].line)))
             /\ \A m \in 1..Len(rs) : m < n => rs[m].line < rs[n].line

\* C30 witness: an init line with s1, a result line without any field and a
\* result line with every field and its own session_id were decoded: two
\* result events, the first with s1 and the defaults, the second with s2.
C30_Witness ==
  \E e \in Execs :
    /\ Len(exs[e].delivered) = 3
    /\ [i \in 1..Len(exs[e].trace) |-> exs[e].trace[i].kind]
         = <<"message", "message", "result", "message", "result">>
    /\ exs[e].results =
         << [line |-> 2, result |-> [session_id |-> "s1", result |-> "", cost_usd |-> "0",
                                    duration_ms |-> "0", num_turns |-> "0", is_error |-> "false"]],
            [line |-> 3, result |-> [session_id |-> "s2", result |-> "ok", cost_usd |-> "0.25",
                                    duration_ms |-> "1200", num_turns |-> "3", is_error |-> "true"]] >>

\* C31: within one execution no message or result event follows the exit
\* event; a subprocess that is still running has emitted no exit and one
\* that has closed has emitted exactly one; and the promise of execute() is
\* resolved only once the whole sink has been read and decoded and exit has
\* been emitted.
ExitCount(e) == Cardinality({ i \in 1..Len(exs[e].emitted) : exs[e].emitted[i] = "exit" })
C31_ExitIsLast ==
  \A e \in Execs :
    LET t == exs[e].emitted
    IN  /\ \A i, j \in 1..Len(t) :
             (i < j /\ t[i] = "exit") => t[j] \notin {"message", "result"}
        /\ (exs[e].run = "running" => ExitCount(e) = 0)
        /\ (exs[e].run = "closed" => ExitCount(e) = 1)
        /\ (exs[e].promise = "resolved" =>
              /\ exs[e].offset = Len(exs[e].file)
              /\ exs[e].delivered = exs[e].file
              /\ Len(t) > 0 /\ \E i \in 1..Len(t) : t[i] = "exit")

\* A subprocess wrote a result line and closed: message, result, exit, and
\* the promise resolved.
C31_Witness ==
  \E e \in Execs :
    /\ exs[e].run = "closed"
    /\ exs[e].promise = "resolved"
    /\ exs[e].emitted = <<"message", "result", "exit">>

\* C32: a complete line that is empty, whitespace-only or not parseable as
\* JSON is dropped silently: no event comes from it (no error event either),
\* the session id is what the other lines made it, and the events of the
\* other lines are what they would be had the line not been written.
NotSkipped(l) == l.type \notin {"blank", "junk"}
RECURSIVE Reference(_, _)
Reference(ls, n) ==
  IF n = 0 THEN <<>>
  ELSE Reference(ls, n - 1)
       \o <<[kind |-> "message", msg |-> ls[n], sid |-> ""]>>
       \o (IF ls[n].type = "result"
           THEN <<[kind |-> "result", msg |-> ls[n], sid |-> LastSessionId(SubSeq(ls, 1, n))]>>
           ELSE <<>>)
FromLine(ev) == ev.line # 0
C32_JunkLineDropped ==
  \A e \in Execs :
    LET dl   == exs[e].delivered
        kept == SelectSeq(dl, NotSkipped)
        tr   == SelectSeq(exs[e].trace, FromLine)
    IN  /\ \A i \in 1..Len(tr) : tr[i].line \in 1..Len(dl) /\ NotSkipped(dl[tr[i].line])
        /\ (Len(dl) > 0 => \A i \in 1..Len(exs[e].emitted) : exs[e].emitted[i] # "error")
        /\ exs[e].sessionId = LastSessionId(kept)
        /\ [i \in 1..Len(tr) |-> [kind |-> tr[i].kind, msg |-> dl[tr[i].line], sid |-> tr[i].sid]]
             = Reference(kept, Len(kept))

\* An init line with s1, a blank or unparseable line and a result line were
\* decoded: three events, the result with s1.
C32_Witness ==
  \E e \in Execs :
    /\ Len(exs[e].delivered) = 3
    /\ exs[e].delivered[1].sid = "s1"
    /\ ~NotSkipped(exs[e].delivered[2])
    /\ exs[e].delivered[3].type = "result"
    /\ exs[e].sessionId = "s1"
    /\ exs[e].emitted = <<"message", "message", "result">>

\* C33: while the subprocess runs, the text after the last newline received
\* stays in the buffer and produces no event: a read without a newline adds
\* no event and appends to the fragment; a read with a newline decodes the
\* lines up to the last newline, the first of them beginning with the
\* fragment as it was, and keeps what follows that newline.
C33_FragmentRetained ==
  [][ \A k \in 1..MaxBytes :
        Feed(k) =>
          LET text == dec.buffer \o toString(SubSeq(dec.bytes, dec.fed + 1, dec.fed + k))
              nls  == { i \in 1..Len(text) : text[i] = "nl" }
              last == CHOOSE i \in nls : \A j \in nls : j <= i
          IN  /\ \A i \in 1..Len(dec'.buffer) : dec'.buffer[i] # "nl"
              /\ nls = {} => (dec'.events = dec.events /\ dec'.buffer = text)
              /\ nls # {} =>
                   /\ dec'.buffer = SubSeq(text, last + 1, Len(text))
                   /\ dec'.events = dec.events \o linesEvents(split(SubSeq(text, 1, last - 1))) ]_vars

\* A whole JSON object has been read without its newline, more output is to
\* come, and no event has been emitted.
C33_Witness ==
  /\ ~dec.closed
  /\ parses(dec.buffer)
  /\ dec.fed < Len(dec.bytes)
  /\ dec.events = <<>>

\* C34: given the same output text, however each of them receives it, the
\* direct-stream executor and the sink-poll executor have emitted the same
\* message and result events, in the same order, once both have closed.
C34_Interchangeable ==
  (dec.closed /\ dec.direct.closed) => dec.direct.events = dec.events

\* C35: a file_browse request is served whatever the status: the status,
\* the executor reference, every executor (no new one, no change to a
\* running one) and the session id stay as they were; exactly one
\* file_browse_result goes out, under the request's id; and when the read
\* of the directory fails it carries the error and no entries.
BrowseResult(why) == [Resp("file_browse_result", 0, why, "", 0) EXCEPT !.sent = TRUE]
Flag(name, v) == IF v \notin {Undefined, ""} THEN <<name, v>> ELSE <<>>
Csv(list) ==
  IF Len(list) = 1 THEN list[1] ELSE list[1] \o "," \o list[2]
C36_Invocation ==
  call.stage = "done" =>
    LET o == call.options
    IN  /\ call.args =
             <<"-p", o.prompt, "--output-format", "stream-json", "--verbose",
               "--dangerously-skip-permissions">>
             \o Flag("--resume", o.session_id)
             \o (IF o.allowed_tools.defined /\ o.allowed_tools.list # <<>>
                 THEN <<"--allowedTools", Csv(o.allowed_tools.list)>> ELSE <<>>)
             \o Flag("--mcp-config", o.mcp_config_path)
             \o Flag("--append-system-prompt", o.system_prompt_append)
        /\ (call.by = "manager" /\ call.command.type # "resume") =>
             (o.session_id = Undefined /\ \A i \in 1..Len(call.args) : call.args[i] # "--resume")

\* C37: while a later command's subprocess is running and the status is
\* busy on its account, a result, error or exit event of an earlier executor
\* leaves the status busy and has no exit error sent.
ExitErrors == {"exit", "exit+diag", "exit+nodiag"}
C37_StaleEventsHarmless ==
  [][ \A e \in Execs :
        ( /\ executor # 0 /\ e # executor
          /\ exs[executor].run = "running"
          /\ currentStatus = "busy"
          /\ Len(exs'[e].emitted) > Len(exs[e].emitted)
          /\ \E i \in (Len(exs[e].emitted) + 1)..Len(exs'[e].emitted) :
               exs'[e].emitted[i] \in {"result", "error", "exit"} )
        => /\ currentStatus' = "busy"
           /\ \A r \in Rids :
                \A i \in (Len(out[r]) + 1)..Len(out'[r]) :
                  out'[r][i].why \notin ExitErrors ]_vars

\* C38: a response handed over while the socket is not open is dropped and
\* stays dropped: every step leaves the responses already logged as they
\* are, sent or not, and a new one is sent exactly if the socket is open at
\* that moment; and the status still moves: after a step in which an
\* executor emitted a result or an exit event the status is online, open
\* socket or not.
C38_NoReplay ==
  [][ /\ \/ out' = out
         \/ \A r \in Rids :
              \/ out'[r] = out[r]
              \/ /\ Len(out'[r]) > Len(out[r])
                 /\ SubSeq(out'[r], 1, Len(out[r])) = out[r]
                 /\ \A i \in (Len(out[r]) + 1)..Len(out'[r]) : out'[r][i].sent = (ws = "OPEN")
      /\ \/ exs' = exs
         \/ currentStatus' = "online"
         \/ \A e \in Execs :
              \A i \in (Len(exs[e].emitted) + 1)..Len(exs'[e].emitted) :
                exs'[e].emitted[i] \notin {"result", "exit"} ]_vars

\* A result was produced and dropped while the socket was closed, the
\* status went back to online, and the manager has reconnected since.
C38_Witness ==
  /\ ws = "OPEN"
  /\ nConn > 0
  /\ currentStatus = "online"
  /\ \E r \in Rids : \E i \in 1..Len(out[r]) :
       out[r][i].type = "result" /\ out[r][i].why = "result" /\ ~out[r][i].sent

\* C39: of the reconnect timers set so far, all but at most one have fired
\* or were cleared, and one is outstanding exactly while the handle says
\* so; no timer is set while one is outstanding, unless that one fires in
\* the same step; no timer is outstanding while the socket is connecting or
\* open; and a socket is created only when there is none or the last one
\* has closed.
PendingTimers(set, fired, handle) ==
  Len(set) - fired - (IF handle = "cleared" THEN 1 ELSE 0)
C39_OneTimerOneSocket ==
  [][ /\ PendingTimers(waits', nConn', reconnectTimer') =
           (IF reconnectTimer' = "pending" THEN 1 ELSE 0)
      /\ (reconnectTimer = "pending" /\ waits' # waits) => nConn' = nConn + 1
      /\ reconnectTimer' = "pending" => ws' \notin {"CONNECTING", "OPEN"}
      /\ (ws' = "CONNECTING" /\ ws # "CONNECTING") => ws \in {"null", "CLOSED"} ]_vars

\* After a reconnect the socket closed again: the second timer is
\* outstanding, the first has fired, the socket is closed.
C39_Witness ==
  /\ reconnectTimer = "pending"
  /\ ws = "CLOSED"
  /\ nConn = 1
  /\ Len(waits) = 2

\* C40: an inbound message that is not valid JSON changes nothing: no
\* response is handed over, no executor is created, cancelled or signalled,
\* the executor reference, the status, the session id, the socket, both
\* timers, the reconnect delay and the last heartbeat stay as they were.
C40_InvalidJsonIgnored ==
  [][ HandleInvalid =>
        /\ out' = out
        /\ exs' = exs
        /\ executor' = executor
        /\ currentStatus' = currentStatus
        /\ currentSessionId' = currentSessionId
        /\ ws' = ws
        /\ heartbeatTimer' = heartbeatTimer /\ hbTimers' = hbTimers
        /\ reconnectTimer' = reconnectTimer /\ waits' = waits
        /\ reconnectDelay' = reconnectDelay
        /\ lastHb' = lastHb ]_vars

\* A command's subprocess is running and a second inbound message has been
\* handled without any response and without any change to the execution:
\* the second message was not JSON.
C40_Witness ==
  /\ nIn = 2
  /\ Len(exs) = 1 /\ executor = 1
  /\ exs[1].run = "running" /\ exs[1].sig = 0
  /\ currentStatus = "busy"
  /\ \A r \in Rids : out[r] = <<>>

====
